---------------------------- MODULE Spec2Model ----------------------------
(***************************************************************************)
(* Model of tooling/reflection/src/reflection/licensing.py: header(), the  *)
(* generator of the licence comment placed at the top of the Swift files   *)
(* produced from GYB templates.                                            *)
(*                                                                         *)
(* A Python string is modelled by the sequence of its lines, that is by    *)
(* s.split("\n"): a sequence of lines, each a sequence of one-character    *)
(* strings.  No line of the template holds a newline, so the string and    *)
(* its sequence of lines determine each other.  Timestamps are counted in  *)
(* hours since 1970-01-01T00:00Z, the local time zone as a whole number of *)
(* hours east of UTC.                                                      *)
(***************************************************************************)
EXTENDS Integers, Sequences, FiniteSets

\* Cap on the number of header() calls of one run of the generator.
MaxCalls == 2

\* licensing.py:28, "The maximum amount of characters within a line is implied to be 100."
MaxLineWidth == 100

\* Smallest and largest year of datetime.date (date.fromtimestamp raises outside them).
MINYEAR == 1
MAXYEAR == 9999

\* The file that defines header(), and the GYB templates that call it.
LicensingPy == "licensing.py"
Callers == {"A.gyb", "B.gyb"}
Files == {LicensingPy} \cup Callers

\* Creation timestamps a file may have (hours since the epoch):
\*   0999-12-31T20:00Z, 2024-06-15T12:00Z, 2024-12-31T20:00Z, 9999-12-31T20:00Z.
BirthTimes == {-8502844, 477444, 482132, 70389524}

\* Local time zones of the process (hours east of UTC).
UtcOffsets == {0, 14}

\* What the filesystem holds for a path: no file, or a file with its creation time.
NoFile == [exists |-> FALSE, st_birthtime |-> 0]
FileStates == {NoFile} \cup {[exists |-> TRUE, st_birthtime |-> t] : t \in BirthTimes}

VARIABLES
  fs,            \* the filesystem: path -> file state
  hasBirthtime,  \* whether os.stat_result has the st_birthtime attribute on this platform
  utcOffset,     \* the local time zone of the process
  ncalls,        \* number of header() calls made so far
  last,          \* the latest call of header(): who called, what it statted, how it ended
  prev           \* the lines returned by the call before the latest (<<>> when none was)

vars == <<fs, hasBirthtime, utcOffset, ncalls, last, prev>>

(***************************************************************************)
(* The f-string of lines 34-50.                                            *)
(***************************************************************************)
\* U+00A9 COPYRIGHT SIGN, one character of the Python string.
CopyrightSign == "(C)"

\* The two spaces by which lines 35-50 of the literal are indented in the source.
Indent == <<" ", " ">>

Dashes(n) == [i \in 1..n |-> "-"]

\* The rule of lines 34 and 49: "// ===", 91 dashes, "===".
Rule == <<"/", "/", " ", "=", "=", "=">> \o Dashes(91) \o <<"=", "=", "=">>

\* lines 36, 38, 42, 46: "  //"
Blank == Indent \o <<"/", "/">>

\* line 35, before the substitution: "  // Copyright © "
L35Before ==
  <<" ", " ", "/", "/", " ", "C", "o", "p", "y", "r", "i", "g", "h", "t", " ", CopyrightSign,
     " ">>

\* line 35, after the substitution: " Supernova. All rights reserved."
L35After ==
  <<" ", "S", "u", "p", "e", "r", "n", "o", "v", "a", ".", " ", "A", "l", "l", " ",
     "r", "i", "g", "h", "t", "s", " ", "r", "e", "s", "e", "r", "v", "e", "d", ".">>

\* line 37: "  // This file is part of the Deus open-source project."
L37 ==
  Indent \o <<"/", "/", " ", "T", "h", "i", "s", " ", "f", "i", "l", "e", " ", "i", "s", " ",
     "p", "a", "r", "t", " ", "o", "f", " ", "t", "h", "e", " ", "D", "e", "u", "s",
     " ", "o", "p", "e", "n", "-", "s", "o", "u", "r", "c", "e", " ", "p", "r", "o",
     "j", "e", "c", "t", ".">>

\* line 39: "  // This program is free software: you can redistribute it and/or modify it under the terms of the"
L39 ==
  Indent \o <<"/", "/", " ", "T", "h", "i", "s", " ", "p", "r", "o", "g", "r", "a", "m", " ",
     "i", "s", " ", "f", "r", "e", "e", " ", "s", "o", "f", "t", "w", "a", "r", "e",
     ":", " ", "y", "o", "u", " ", "c", "a", "n", " ", "r", "e", "d", "i", "s", "t",
     "r", "i", "b", "u", "t", "e", " ", "i", "t", " ", "a", "n", "d", "/", "o", "r",
     " ", "m", "o", "d", "i", "f", "y", " ", "i", "t", " ", "u", "n", "d", "e", "r",
     " ", "t", "h", "e", " ", "t", "e", "r", "m", "s", " ", "o", "f", " ", "t", "h",
     "e">>

\* line 40: "  // GNU General Public License as published by the Free Software Foundation, either version 3 of the"
L40 ==
  Indent \o <<"/", "/", " ", "G", "N", "U", " ", "G", "e", "n", "e", "r", "a", "l", " ", "P",
     "u", "b", "l", "i", "c", " ", "L", "i", "c", "e", "n", "s", "e", " ", "a", "s",
     " ", "p", "u", "b", "l", "i", "s", "h", "e", "d", " ", "b", "y", " ", "t", "h",
     "e", " ", "F", "r", "e", "e", " ", "S", "o", "f", "t", "w", "a", "r", "e", " ",
     "F", "o", "u", "n", "d", "a", "t", "i", "o", "n", ",", " ", "e", "i", "t", "h",
     "e", "r", " ", "v", "e", "r", "s", "i", "o", "n", " ", "3", " ", "o", "f", " ",
     "t", "h", "e">>

\* line 41: "  // License, or (at your option) any later version."
L41 ==
  Indent \o <<"/", "/", " ", "L", "i", "c", "e", "n", "s", "e", ",", " ", "o", "r", " ", "(",
     "a", "t", " ", "y", "o", "u", "r", " ", "o", "p", "t", "i", "o", "n", ")", " ",
     "a", "n", "y", " ", "l", "a", "t", "e", "r", " ", "v", "e", "r", "s", "i", "o",
     "n", ".">>

\* line 43: "  // This program is distributed in the hope that it will be useful, but WITHOUT ANY WARRANTY; without"
L43 ==
  Indent \o <<"/", "/", " ", "T", "h", "i", "s", " ", "p", "r", "o", "g", "r", "a", "m", " ",
     "i", "s", " ", "d", "i", "s", "t", "r", "i", "b", "u", "t", "e", "d", " ", "i",
     "n", " ", "t", "h", "e", " ", "h", "o", "p", "e", " ", "t", "h", "a", "t", " ",
     "i", "t", " ", "w", "i", "l", "l", " ", "b", "e", " ", "u", "s", "e", "f", "u",
     "l", ",", " ", "b", "u", "t", " ", "W", "I", "T", "H", "O", "U", "T", " ", "A",
     "N", "Y", " ", "W", "A", "R", "R", "A", "N", "T", "Y", ";", " ", "w", "i", "t",
     "h", "o", "u", "t">>

\* line 44: "  // even the implied warranty of MERCHANTABILITY or FITNESS FOR A PARTICULAR PURPOSE. See the GNU"
L44 ==
  Indent \o <<"/", "/", " ", "e", "v", "e", "n", " ", "t", "h", "e", " ", "i", "m", "p", "l",
     "i", "e", "d", " ", "w", "a", "r", "r", "a", "n", "t", "y", " ", "o", "f", " ",
     "M", "E", "R", "C", "H", "A", "N", "T", "A", "B", "I", "L", "I", "T", "Y", " ",
     "o", "r", " ", "F", "I", "T", "N", "E", "S", "S", " ", "F", "O", "R", " ", "A",
     " ", "P", "A", "R", "T", "I", "C", "U", "L", "A", "R", " ", "P", "U", "R", "P",
     "O", "S", "E", ".", " ", "S", "e", "e", " ", "t", "h", "e", " ", "G", "N", "U">>

\* line 45: "  // General Public License for more details."
L45 ==
  Indent \o <<"/", "/", " ", "G", "e", "n", "e", "r", "a", "l", " ", "P", "u", "b", "l", "i",
     "c", " ", "L", "i", "c", "e", "n", "s", "e", " ", "f", "o", "r", " ", "m", "o",
     "r", "e", " ", "d", "e", "t", "a", "i", "l", "s", ".">>

\* line 47: "  // You should have received a copy of the GNU General Public License along with this program. If"
L47 ==
  Indent \o <<"/", "/", " ", "Y", "o", "u", " ", "s", "h", "o", "u", "l", "d", " ", "h", "a",
     "v", "e", " ", "r", "e", "c", "e", "i", "v", "e", "d", " ", "a", " ", "c", "o",
     "p", "y", " ", "o", "f", " ", "t", "h", "e", " ", "G", "N", "U", " ", "G", "e",
     "n", "e", "r", "a", "l", " ", "P", "u", "b", "l", "i", "c", " ", "L", "i", "c",
     "e", "n", "s", "e", " ", "a", "l", "o", "n", "g", " ", "w", "i", "t", "h", " ",
     "t", "h", "i", "s", " ", "p", "r", "o", "g", "r", "a", "m", ".", " ", "I", "f">>

\* line 48: "  // not, see https://www.gnu.org/licenses."
L48 ==
  Indent \o <<"/", "/", " ", "n", "o", "t", ",", " ", "s", "e", "e", " ", "h", "t", "t", "p",
     "s", ":", "/", "/", "w", "w", "w", ".", "g", "n", "u", ".", "o", "r", "g", "/",
     "l", "i", "c", "e", "n", "s", "e", "s", ".">>

\* str(n) of a positive int, as the f-string renders {caller_file_creation_year}.
Digits == <<"0", "1", "2", "3", "4", "5", "6", "7", "8", "9">>

\* A faulty variant of Decimal: the year zero-padded to four digits ("{:04d}").
DecimalZeroPadded(n) ==
  <<Digits[((n \div 1000) % 10) + 1], Digits[((n \div 100) % 10) + 1],
    Digits[((n \div 10) % 10) + 1], Digits[(n % 10) + 1]>>

RECURSIVE Decimal(_)
Decimal(n) ==
  IF n < 10 THEN <<Digits[n + 1]>>
  ELSE Decimal(n \div 10) \o <<Digits[(n % 10) + 1]>>

\* A faulty variant of CopyrightLine: the year of the century only ("%y").
CopyrightLineShortYear(year) == L35Before \o Decimal(year % 100) \o L35After

\* line 35 with the year substituted.
CopyrightLine(year) == L35Before \o Decimal(year) \o L35After

\* A faulty variant of Template: the closing rule shortened by the width of the year.
TemplateFittedRule(year) ==
  <<Rule, CopyrightLine(year), Blank, L37, Blank, L39, L40, L41, Blank, L43, L44, L45,
    Blank, L47, L48,
    Indent \o <<"/", "/", " ", "=", "=", "=">> \o Dashes(91 - Len(Decimal(year)))
           \o <<"=", "=", "=">>,
    Indent>>

\* The value of the f-string for a year: its 17 lines, the last being the indentation
\* that precedes the closing quotes of line 50.
Template(year) ==
  <<Rule, CopyrightLine(year), Blank, L37, Blank, L39, L40, L41, Blank, L43, L44, L45,
    Blank, L47, L48, Indent \o Rule, Indent>>

(***************************************************************************)
(* date.fromtimestamp(t).year: the year of the local calendar date of t.   *)
(***************************************************************************)
\* Year of the proleptic Gregorian date that lies `days` days after 1970-01-01.
YearOfDays(days) ==
  LET z   == days + 719468
      era == z \div 146097
      doe == z - era * 146097
      yoe == (doe - (doe \div 1460) + (doe \div 36524) - (doe \div 146096)) \div 365
      doy == doe - (365 * yoe + (yoe \div 4) - (yoe \div 100))
      mp  == (5 * doy + 2) \div 153
      m   == IF mp < 10 THEN mp + 3 ELSE mp - 9
  IN  yoe + era * 400 + (IF m <= 2 THEN 1 ELSE 0)

LocalYear(t) == YearOfDays((t + utcOffset) \div 24)

(***************************************************************************)
(* header()                                                                *)
(***************************************************************************)
\* inspect.stack() inside header() called from file c: the innermost frame first.
stack(c) ==
  <<[filename |-> LicensingPy, function |-> "header"],
    [filename |-> c, function |-> "<module>"]>>

\* s[k] of Python, whose indices start at 0.
Item(s, k) == s[k + 1]

Raised(exception, statted, read) ==
  [outcome |-> "raised", error |-> exception, value |-> <<>>,
   statted |-> statted, read |-> read]

Returned(text, statted, read) ==
  [outcome |-> "returned", error |-> "", value |-> text,
   statted |-> statted, read |-> read]

\* A faulty variant of header: a file that cannot be statted, or has no creation time,
\* yields the header of the epoch's year instead of an error.
headerWithFallback(c) ==
  LET caller_file_path == Item(stack(c), 0).filename
      st               == fs[caller_file_path]
      statted          == <<caller_file_path>>
  IN  IF ~st.exists \/ ~hasBirthtime THEN Returned(Template(1970), statted, st)
      ELSE LET caller_file_creation_year == LocalYear(st.st_birthtime)
           IN  IF caller_file_creation_year < MINYEAR \/ caller_file_creation_year > MAXYEAR
               THEN Raised("ValueError", statted, st)
               ELSE Returned(Template(caller_file_creation_year), statted, st)

\* Lines 32-50: how a call made from file c ends.
header(c) ==
  LET caller_file_path == Item(stack(c), 0).filename
      st               == fs[caller_file_path]
      statted          == <<caller_file_path>>
  IN  IF ~st.exists THEN Raised("FileNotFoundError", statted, st)
      ELSE IF ~hasBirthtime THEN Raised("AttributeError", statted, st)
      ELSE LET caller_file_creation_year == LocalYear(st.st_birthtime)
           IN  IF caller_file_creation_year < MINYEAR \/ caller_file_creation_year > MAXYEAR
               THEN Raised("ValueError", statted, st)
               ELSE Returned(Template(caller_file_creation_year), statted, st)

(***************************************************************************)
(* The state machine: calls of header() from the templates, and the world  *)
(* creating and deleting files around them.                                *)
(***************************************************************************)
NoCall ==
  [caller |-> "", callerFile |-> NoFile, outcome |-> "none", error |-> "",
   value |-> <<>>, statted |-> <<>>, read |-> NoFile]

NoPrev == [outcome |-> "none", value |-> <<>>, read |-> NoFile]

Init ==
  /\ fs \in [Files -> FileStates]
  /\ hasBirthtime \in BOOLEAN
  /\ utcOffset \in UtcOffsets
  /\ ncalls = 0
  /\ last = NoCall
  /\ prev = NoPrev

\* A faulty variant of Call: header() switches the process to UTC to read the year.
CallForcingUtc(c) ==
  /\ ncalls < MaxCalls
  /\ ncalls' = ncalls + 1
  /\ LET r == header(c)
     IN  last' = [caller |-> c, callerFile |-> fs[c], outcome |-> r.outcome,
                  error |-> r.error, value |-> r.value, statted |-> r.statted,
                  read |-> r.read]
  /\ prev' = [outcome |-> last.outcome, value |-> last.value, read |-> last.read]
  /\ utcOffset' = 0
  /\ UNCHANGED <<fs, hasBirthtime>>

\* A template c calls header().
Call(c) ==
  /\ ncalls < MaxCalls
  /\ ncalls' = ncalls + 1
  /\ LET r == header(c)
     IN  last' = [caller |-> c, callerFile |-> fs[c], outcome |-> r.outcome,
                  error |-> r.error, value |-> r.value, statted |-> r.statted,
                  read |-> r.read]
  /\ prev' = [outcome |-> last.outcome, value |-> last.value, read |-> last.read]
  /\ UNCHANGED <<fs, hasBirthtime, utcOffset>>

\* The file at path f is created (anew) at time t.
Create(f, t) ==
  /\ fs[f] # [exists |-> TRUE, st_birthtime |-> t]
  /\ fs' = [fs EXCEPT ![f] = [exists |-> TRUE, st_birthtime |-> t]]
  /\ UNCHANGED <<hasBirthtime, utcOffset, ncalls, last, prev>>

\* The file at path f is deleted.
Delete(f) ==
  /\ fs[f].exists
  /\ fs' = [fs EXCEPT ![f] = NoFile]
  /\ UNCHANGED <<hasBirthtime, utcOffset, ncalls, last, prev>>

Next ==
  \/ \E c \in Callers : Call(c)
  \/ \E f \in Files, t \in BirthTimes : Create(f, t)
  \/ \E f \in Files : Delete(f)

Spec == Init /\ [][Next]_vars

(***************************************************************************)
(* Properties of header().                                                 *)
(***************************************************************************)
StartsWith(l, p) == Len(l) >= Len(p) /\ SubSeq(l, 1, Len(p)) = p

Contains(l, p) ==
  \E i \in 1..(Len(l) - Len(p) + 1) : l[i] = p[1] /\ SubSeq(l, i, i + Len(p) - 1) = p

\* "// ===", one or more dashes, "===".
IsRule(l) ==
  \E n \in 1..Len(l) : l = <<"/", "/", " ", "=", "=", "=">> \o Dashes(n) \o <<"=", "=", "=">>

CommentMarker == <<"/", "/">>

CopyrightWord == <<"C", "o", "p", "y", "r", "i", "g", "h", "t">>

\* " Supernova. All rights reserved."
OwnerAndRights ==
  <<" ", "S", "u", "p", "e", "r", "n", "o", "v", "a", ".", " ", "A", "l", "l", " ",
    "r", "i", "g", "h", "t", "s", " ", "r", "e", "s", "e", "r", "v", "e", "d", ".">>

\* "Copyright (c) <year> Supernova. All rights reserved." for the year's numeral.
CopyrightNotice(numeral) ==
  CopyrightWord \o <<" ", CopyrightSign, " ">> \o numeral \o OwnerAndRights

\* The lines of a text that hold the word Copyright.
CopyrightLines(text) == {i \in DOMAIN text : Contains(text[i], CopyrightWord)}

\* What stands between "Copyright (c) " and " Supernova" in the first such line.
YearField(text) ==
  LET l == text[CHOOSE i \in CopyrightLines(text) : \A j \in CopyrightLines(text) : i <= j]
      a == CHOOSE i \in 1..Len(l) : SubSeq(l, i, i + Len(CopyrightWord) - 1) = CopyrightWord
      from == a + Len(CopyrightWord) + 3
      to == CHOOSE i \in from..(Len(l) + 1) :
              /\ (i = Len(l) + 1 \/ l[i] = " ")
              /\ \A j \in from..(i - 1) : l[j] # " "
  IN  SubSeq(l, from, to - 1)

IsDigit(ch) == \E d \in DOMAIN Digits : Digits[d] = ch

\* The numeral of a year, digit by digit, most significant first, no leading zero.
Numeral(y) ==
  LET n == CHOOSE k \in 1..4 : y < 10^k /\ (k = 1 \/ y >= 10^(k - 1))
  IN  [i \in 1..n |-> Digits[((y \div 10^(n - i)) % 10) + 1]]

ReadYear == LocalYear(last.read.st_birthtime)
CallerYear == LocalYear(last.callerFile.st_birthtime)
PrevYear == LocalYear(prev.read.st_birthtime)

\* C1: the year in the copyright line of a returned header is the creation year of
\* the file that called header().
C1_YearOfCallingFile ==
  (last.outcome = "returned" /\ last.callerFile.exists
     /\ CallerYear >= MINYEAR /\ CallerYear <= MAXYEAR)
  => YearField(last.value) = Numeral(CallerYear)

\* C2: every line of a returned header, indentation counted, is at most 100
\* characters long.
C2_LinesWithinWidth ==
  last.outcome = "returned"
  => \A i \in DOMAIN last.value : Len(last.value[i]) <= MaxLineWidth

\* C3: the first and the last line of a returned header are the rule; nothing but at
\* most a line terminator follows the closing rule.
C3_RuleFirstAndLast ==
  last.outcome = "returned"
  => LET n == Len(last.value)
     IN  /\ n >= 2
         /\ IsRule(last.value[1])
         /\ \/ IsRule(last.value[n])
            \/ (last.value[n] = <<>> /\ IsRule(last.value[n - 1]))

\* C4: every line of a returned header starts with the comment marker "//".
C4_EveryLineIsComment ==
  last.outcome = "returned"
  => \A i \in DOMAIN last.value : StartsWith(last.value[i], CommentMarker)

\* C5: a returned header holds exactly one copyright line, and that line is the
\* (indented, commented) notice "Copyright (c) Y Supernova. All rights reserved."
\* with Y the decimal year of the file whose timestamp header() read.
C5_CopyrightLineOfReadYear ==
  last.outcome = "returned"
  => /\ Cardinality(CopyrightLines(last.value)) = 1
     /\ \A i \in CopyrightLines(last.value) :
          last.value[i] = Indent \o CommentMarker \o <<" ">>
                            \o CopyrightNotice(Numeral(ReadYear))

C5_Witness == last.outcome = "returned" /\ ReadYear = 2025

C8_SameCallerSameText ==
  [][(/\ ncalls' = ncalls + 1
      /\ last.outcome = "returned" /\ last'.outcome = "returned"
      /\ last'.caller = last.caller
      /\ last.callerFile.exists
      /\ last'.callerFile = last.callerFile)
     => last'.value = last.value]_vars

C10_YearIsTheOnlyVariable ==
  (last.outcome = "returned" /\ prev.outcome = "returned")
  => /\ (ReadYear = PrevYear => last.value = prev.value)
     /\ (ReadYear # PrevYear
           => /\ Len(last.value) = Len(prev.value)
              /\ Cardinality({i \in DOMAIN last.value : last.value[i] # prev.value[i]}) = 1
              /\ \A i \in DOMAIN last.value :
                   last.value[i] # prev.value[i]
                   => /\ Contains(last.value[i], CopyrightWord)
                      /\ Contains(prev.value[i], CopyrightWord))

C10_Witness ==
  /\ last.outcome = "returned"
  /\ prev.outcome = "returned"
  /\ ReadYear # PrevYear
  /\ last.read.st_birthtime # prev.read.st_birthtime

====
